---------------------------- MODULE Spec2Model ----------------------------
(***************************************************************************)
(* Model of the churn preprocessing core, src/src/data/preprocessing.py:   *)
(* target resolution, leakage drop, feature type detection, the            *)
(* impute/scale/one-hot pipeline (fit and transform), the fit/apply        *)
(* orchestrator preprocess_dataframe, and pipeline persistence.            *)
(*                                                                         *)
(* Encodings                                                               *)
(*   - a numeric cell is a natural number, or NaN (a missing value);       *)
(*   - an object (text) cell is a tuple of one-character strings, or NA    *)
(*     (a missing value); "" is the empty tuple, which is not missing;     *)
(*   - a DataFrame is [cols, kind, val]: the ordered column names, each    *)
(*     column's dtype kind ("num" | "obj") and each column's cells;        *)
(*   - a feature-matrix cell is a pair <<c, v>> standing for the real      *)
(*     number c / sqrt(v), so that scaling needs no division or root.      *)
(***************************************************************************)
EXTENDS Integers, Sequences, FiniteSets, TLC

VARIABLES
    pipelines,  \* the pipeline object each driver holds: "trained", "loaded"
    files,      \* the filesystem: path -> serialized artifact, or NoFile
    dirs,       \* the directories that exist
    call,       \* the last call of the core: its arguments and its outcome
    saved,      \* history: path -> the pipeline the last completed save was given
    runs        \* the concurrent training runs: run -> its position and pipeline

vars == <<pipelines, files, dirs, call, saved, runs>>

----------------------------------------------------------------------------
(* Bounds of the model (not program constants).                            *)

\* rows of the largest dataset
MaxRows == 4
\* attributes of a pipeline that one write call of a save puts into the file
WriteChunk == 4
\* columns of the widest dataset; above the 20 columns the error previews
MaxWide == 22

----------------------------------------------------------------------------
(* Program constants.                                                      *)

\* preprocessing.py:20-27
_TARGET_CANDIDATES ==
    <<"Churn", "Churn Label", "churn", "churn_label", "Churn_Label", "Churn Value">>

\* preprocessing.py:43, df.columns[:20]
PreviewLimit == 20

\* a falsy `preferred` (None or ""): preprocessing.py:34
NoHint == ""

NaN == -1
NA == <<"<NA>">>

Range(s) == {s[i] : i \in DOMAIN s}

Min(a, b) == IF a <= b THEN a ELSE b

----------------------------------------------------------------------------
(* Text: str.strip and str.lower, preprocessing.py:154.                    *)

Whitespace == {" ", "\t"}

LowerChar(ch) ==
    CASE ch = "Y" -> "y" [] ch = "E" -> "e" [] ch = "S" -> "s"
      [] ch = "N" -> "n" [] ch = "O" -> "o" [] ch = "M" -> "m"
      [] OTHER -> ch

Lower(s) == [i \in DOMAIN s |-> LowerChar(s[i])]

RECURSIVE LStrip(_)
LStrip(s) ==
    IF s # <<>> /\ Head(s) \in Whitespace THEN LStrip(Tail(s)) ELSE s

RECURSIVE RStrip(_)
RStrip(s) ==
    IF s # <<>> /\ s[Len(s)] \in Whitespace
    THEN RStrip(SubSeq(s, 1, Len(s) - 1))
    ELSE s

\* a strip of the leading whitespace only
StripLeftOnly(s) == LStrip(s)

Strip(s) == RStrip(LStrip(s))


----------------------------------------------------------------------------
(* Ordering of text values (Python's str comparison, by code point), used  *)
(* where scikit-learn sorts category values and breaks ties of the mode.   *)

Alphabet ==
    <<"\t", " ", "E", "M", "N", "O", "S", "T", "Y", "a", "b", "e", "m", "n",
      "o", "s", "t", "w", "y">>

CharRank(ch) == CHOOSE i \in DOMAIN Alphabet : Alphabet[i] = ch

RECURSIVE StrLess(_, _)
StrLess(a, b) ==
    IF b = <<>> THEN FALSE
    ELSE IF a = <<>> THEN TRUE
    ELSE IF Head(a) = Head(b) THEN StrLess(Tail(a), Tail(b))
    ELSE CharRank(Head(a)) < CharRank(Head(b))

----------------------------------------------------------------------------
(* The datasets the drivers read: a pool of customer records, the windows  *)
(* of the pool that make a dataset's rows, and the schemas (column lists)  *)
(* of the source exports.                                                  *)

Filler(i) == "f" \o ToString(i)

Kind(c) ==
    IF c \in {"Contract", "Partner", "Churn", "Churn Label", "churn_label",
              "Churn_Label"}
    THEN "obj" ELSE "num"

PoolColumn(c) ==
    CASE c = "tenure"      -> <<5, 24, NaN, 12, 5, 70>>
      [] c = "Contract"    -> << <<"M","t","m">>, <<"T","w","o">>, <<"M","t","m">>,
                                 <<"O","n","e">>, NA, <<"T","w","o">> >>
      [] c = "Partner"     -> << <<"N","o">>, <<"Y","e","s">>, <<"Y","e","s">>,
                                 <<"Y","e","s">>, <<"Y","e","s">>, <<"N","o">> >>
      [] c = "TotalCharges" -> <<NaN, NaN, NaN, NaN, 7, 9>>
      [] c = "Exited"      -> <<0, 1, 1, 0, 0, 1>>
      [] c = "Churn"       -> << <<"N","o">>, <<"Y","e","s">>, <<" ","y","e","s"," ">>,
                                 NA, <<"Y","E","S">>, <<>> >>
      [] c = "Churn Label" -> << <<"n","o">>, <<"m","a","y","b","e">>, <<"Y","E","S">>,
                                 <<"Y","e","s","\t">>, <<"y"," ","e","s">>, <<"N","O"," ">> >>
      [] c = "churn_label" -> << <<"Y","e","s">>, <<"N","o">>, NA,
                                 <<"y","e","s">>, <<"n","o">>, <<"N","o">> >>
      [] c = "Churn_Label" -> << <<"N","o">>, <<"N","o">>, <<"Y","e","s">>,
                                 <<"Y","e","s">>, <<"N","o">>, <<"N","o">> >>
      [] c = "Churn Value" -> <<0, 1, 1, 1, 0, 0>>
      [] c = "churn"       -> <<0, 2, 1, NaN, 1, 0>>
      [] OTHER             -> <<1, 1, 1, 1, 1, 1>>

PoolLen == Len(PoolColumn("tenure"))

FirstWindow == [start |-> 1, len |-> Min(MaxRows, PoolLen)]

SecondWindow == [start |-> 3, len |-> Min(MaxRows - 1, PoolLen - 2)]

\* the two rows of the unit tests' sample
ShortWindow == [start |-> 1, len |-> 2]

MiddleWindow == [start |-> 2, len |-> Min(MaxRows - 1, PoolLen - 1)]

WideColumns ==
    <<"tenure", "Contract">> \o [i \in 1..(MaxWide - 2) |-> Filler(i)]

MakeFrame(columns, w) ==
    [cols |-> columns,
     kind |-> [c \in Range(columns) |-> Kind(c)],
     val  |-> [c \in Range(columns) |->
                 SubSeq(PoolColumn(c), w.start, w.start + w.len - 1)]]

\* the datasets the drivers pass to preprocess_dataframe
Datasets ==
    { MakeFrame(<<"tenure", "Contract", "Churn">>, FirstWindow),
      MakeFrame(<<"tenure", "Contract", "Churn">>, SecondWindow),
      MakeFrame(<<"Contract", "tenure", "Churn Label", "Churn Value">>, FirstWindow),
      MakeFrame(<<"Contract", "tenure", "Churn Label", "Churn Value">>, SecondWindow),
      MakeFrame(<<"tenure", "Exited", "Contract", "churn">>, FirstWindow),
      MakeFrame(<<"tenure", "Contract">>, SecondWindow),
      MakeFrame(<<"tenure", "Churn">>, FirstWindow),
      MakeFrame(WideColumns, FirstWindow) }

\* the target_column arguments: the default "Churn", a name outside the
\* candidate list, and a candidate late in the list
Hints == {"Churn", "Exited", "Churn Value"}

NumRows(df) == Len(df.val[df.cols[1]])

\* DataFrame.drop(columns=...): preprocessing.py:137, 139
Drop(df, names) ==
    LET keep == SelectSeq(df.cols, LAMBDA c : c \notin names)
    IN  [cols |-> keep,
         kind |-> [c \in Range(keep) |-> df.kind[c]],
         val  |-> [c \in Range(keep) |-> df.val[c]]]

----------------------------------------------------------------------------
(* Target Resolver: preprocessing.py:30-47.                                *)

search_order(preferred) ==
    (IF preferred # NoHint THEN <<preferred>> ELSE <<>>) \o _TARGET_CANDIDATES

RECURSIVE FirstPresent(_, _)
FirstPresent(order, columns) ==
    IF order = <<>> THEN NoHint
    ELSE IF Head(order) \in columns THEN Head(order)
    ELSE FirstPresent(Tail(order), columns)

\* a resolver that searches the fixed candidates before the preferred name
resolve_candidates_first(df, preferred) ==
    FirstPresent(_TARGET_CANDIDATES \o (IF preferred # NoHint THEN <<preferred>> ELSE <<>>),
                 Range(df.cols))

\* the column returned, or NoHint when the KeyError is raised
_resolve_target_column(df, preferred) ==
    FirstPresent(search_order(preferred), Range(df.cols))

\* the KeyError's message: the candidate list and the column preview
KeyErrorMessage(df) ==
    [candidates |-> _TARGET_CANDIDATES,
     available  |-> SubSeq(df.cols, 1, Min(PreviewLimit, Len(df.cols)))]


----------------------------------------------------------------------------
(* Feature Type Detector: preprocessing.py:50-64.                          *)

_detect_feature_types(df, target_column) ==
    [numerical   |-> SelectSeq(df.cols,
                        LAMBDA c : c # target_column /\ df.kind[c] = "num"),
     categorical |-> SelectSeq(df.cols,
                        LAMBDA c : c # target_column /\ df.kind[c] # "num")]

----------------------------------------------------------------------------
(* Sequence helpers for the statistics.                                    *)

RECURSIVE Sum(_)
Sum(s) == IF s = <<>> THEN 0 ELSE Head(s) + Sum(Tail(s))

\* the strict order of a column's values: numbers, or text by code point
Less(kind, a, b) == IF kind = "num" THEN a < b ELSE StrLess(a, b)

\* insertion of x into the sorted sequence s
RECURSIVE Insert(_, _, _)
Insert(kind, x, s) ==
    IF s = <<>> THEN <<x>>
    ELSE IF Less(kind, x, Head(s)) THEN <<x>> \o s
    ELSE <<Head(s)>> \o Insert(kind, x, Tail(s))

RECURSIVE Sort(_, _)
Sort(kind, s) ==
    IF s = <<>> THEN <<>> ELSE Insert(kind, Head(s), Sort(kind, Tail(s)))

Count(s, x) == Cardinality({i \in DOMAIN s : s[i] = x})

\* SimpleImputer(strategy="median").statistics_, doubled to stay an integer
Median2(observed) ==
    LET srt == Sort("num", observed)
        n   == Len(srt)
    IN  IF n % 2 = 1 THEN 2 * srt[(n + 1) \div 2]
        ELSE srt[n \div 2] + srt[n \div 2 + 1]

\* SimpleImputer(strategy="most_frequent").statistics_: the smallest of the
\* most frequent values
MostFrequent(observed) ==
    LET best == {x \in Range(observed) :
                    \A y \in Range(observed) : Count(observed, y) <= Count(observed, x)}
    IN  CHOOSE x \in best : \A y \in best : y = x \/ StrLess(x, y)

\* OneHotEncoder.categories_: the sorted distinct values of a column
RECURSIVE Distinct(_)
Distinct(s) ==
    IF s = <<>> THEN <<>>
    ELSE LET rest == Distinct(Tail(s))
         IN  IF Head(s) \in Range(rest) THEN rest ELSE <<Head(s)>> \o rest

Categories(values) == Sort("obj", Distinct(values))


----------------------------------------------------------------------------
(* Pipeline Builder: preprocessing.py:67-115.  A pipeline is the           *)
(* ColumnTransformer: its two column lists and, once fit, the learned      *)
(* parameters of the imputers, the scaler and the encoder.                 *)

NoList == <<"<None>">>

NoParams == [c \in {} |-> 0]

Unfitted(numerical, categorical) ==
    [num        |-> numerical,
     cat        |-> categorical,
     fitted     |-> FALSE,
     n          |-> 0,
     num_kept   |-> <<>>,
     med2       |-> NoParams,
     sum2       |-> NoParams,
     var        |-> NoParams,
     cat_kept   |-> <<>>,
     mode       |-> NoParams,
     categories |-> NoParams]

\* the pipeline built, for a dataset whose target resolves (line 75)
build_preprocessing_pipeline(df, target_column, numerical_features, categorical_features) ==
    LET target   == _resolve_target_column(df, target_column)
        inferred == _detect_feature_types(df, target)
        infer    == numerical_features = NoList \/ categorical_features = NoList
        num      == IF infer /\ numerical_features \in {NoList, <<>>}
                    THEN inferred.numerical ELSE numerical_features
        cat      == IF infer /\ categorical_features \in {NoList, <<>>}
                    THEN inferred.categorical ELSE categorical_features
    IN  Unfitted(num, cat)

----------------------------------------------------------------------------
(* ColumnTransformer.fit_transform and .transform, as called at            *)
(* preprocessing.py:144 and 147.                                           *)

Observed(values, missing) == SelectSeq(values, LAMBDA v : v # missing)

\* the columns the transformer selects by name that X does not have
MissingColumns(p, X) == (Range(p.num) \cup Range(p.cat)) \ Range(X.cols)

Fit(p, X, rows) ==
    LET num_kept == SelectSeq(p.num, LAMBDA c : Observed(X.val[c], NaN) # <<>>)
        cat_kept == SelectSeq(p.cat, LAMBDA c : Observed(X.val[c], NA) # <<>>)
        med2     == [c \in Range(num_kept) |-> Median2(Observed(X.val[c], NaN))]
        imp2     == [c \in Range(num_kept) |->
                       [i \in 1..rows |-> IF X.val[c][i] = NaN THEN med2[c]
                                          ELSE 2 * X.val[c][i]]]
        sum2     == [c \in Range(num_kept) |-> Sum(imp2[c])]
        mode     == [c \in Range(cat_kept) |-> MostFrequent(Observed(X.val[c], NA))]
    IN  [num        |-> p.num,
         cat        |-> p.cat,
         fitted     |-> TRUE,
         n          |-> rows,
         num_kept   |-> num_kept,
         med2       |-> med2,
         sum2       |-> sum2,
         var        |-> [c \in Range(num_kept) |->
                          rows * Sum([i \in 1..rows |-> imp2[c][i] * imp2[c][i]])
                            - sum2[c] * sum2[c]],
         cat_kept   |-> cat_kept,
         mode       |-> mode,
         categories |-> [c \in Range(cat_kept) |->
                          Categories(Observed(X.val[c], NA))]]

RECURSIVE Concat(_)
Concat(ss) == IF ss = <<>> THEN <<>> ELSE Head(ss) \o Concat(Tail(ss))

\* the scaled value (x - mean) / scale as <<c, v>>, the number c / sqrt(v)
ScaledCell(p, c, x) ==
    LET x2 == IF x = NaN THEN p.med2[c] ELSE 2 * x
    IN  <<p.n * x2 - p.sum2[c],
          IF p.var[c] = 0 THEN 4 * p.n * p.n ELSE p.var[c]>>

\* an encoder that treats a value unseen at fit as a missing one
IndicatorBlockUnknownAsMode(p, c, x) ==
    LET v == IF x = NA \/ x \notin Range(p.categories[c]) THEN p.mode[c] ELSE x
    IN  [k \in 1..Len(p.categories[c]) |->
            <<IF p.categories[c][k] = v THEN 1 ELSE 0, 1>>]

\* the indicator block of one value: all zero for a value unseen at fit
IndicatorBlock(p, c, x) ==
    LET v == IF x = NA THEN p.mode[c] ELSE x
    IN  [k \in 1..Len(p.categories[c]) |->
            <<IF p.categories[c][k] = v THEN 1 ELSE 0, 1>>]

\* a transformer that puts the indicator blocks before the numeric outputs
TransformRowCatFirst(p, X, i) ==
    Concat([k \in 1..Len(p.cat_kept) |->
              IndicatorBlock(p, p.cat_kept[k], X.val[p.cat_kept[k]][i])])
    \o [k \in 1..Len(p.num_kept) |-> ScaledCell(p, p.num_kept[k], X.val[p.num_kept[k]][i])]

TransformRow(p, X, i) ==
    [k \in 1..Len(p.num_kept) |-> ScaledCell(p, p.num_kept[k], X.val[p.num_kept[k]][i])]
    \o Concat([k \in 1..Len(p.cat_kept) |->
                 IndicatorBlock(p, p.cat_kept[k], X.val[p.cat_kept[k]][i])])

Transform(p, X, rows) == [i \in 1..rows |-> TransformRow(p, X, i)]

----------------------------------------------------------------------------
(* Target normalisation: preprocessing.py:152-154.                         *)

YES == <<"y", "e", "s">>
NO == <<"n", "o">>

\* .str.strip().str.lower().map({"yes": 1, "no": 0}).fillna(0).astype(int)
CanonicalValue(v) ==
    LET mapped == IF v = NA THEN NaN
                  ELSE LET t == Lower(Strip(v))
                       IN  IF t = YES THEN 1 ELSE IF t = NO THEN 0 ELSE NaN
    IN  IF mapped = NaN THEN 0 ELSE mapped

\* a normalisation without the .fillna(0)
NormalizeTargetUnfilled(kind, y) ==
    IF kind = "obj"
    THEN [i \in DOMAIN y |->
            IF y[i] = NA THEN NaN
            ELSE IF Lower(Strip(y[i])) = YES THEN 1
            ELSE IF Lower(Strip(y[i])) = NO THEN 0 ELSE NaN]
    ELSE y

NormalizeTarget(kind, y) ==
    IF kind = "obj" THEN [i \in DOMAIN y |-> CanonicalValue(y[i])] ELSE y


----------------------------------------------------------------------------
(* Fit/Apply Orchestrator: preprocessing.py:118-156.                       *)

NoPipeline == [absent |-> TRUE]

NoMessage == [candidates |-> <<>>, available |-> <<>>]

\* line 144: pipeline.fit_transform(X) fits the new pipeline and transforms
FitTransform(p, X, rows) ==
    LET f == Fit(p, X, rows)
    IN  [status |-> "ok", features |-> Transform(f, X, rows), pipeline |-> f]

\* a transform that also refits the pipeline on the data it is given
ApplyPipelineRefit(p, X, rows) ==
    IF ~p.fitted THEN [status |-> "NotFittedError", features |-> <<>>, pipeline |-> p]
    ELSE IF MissingColumns(p, X) # {}
    THEN [status |-> "ValueError", features |-> <<>>, pipeline |-> p]
    ELSE FitTransform(p, X, rows)

\* a transform that updates the learned parameters after using them
ApplyThenRefit(p, X, rows) ==
    IF ~p.fitted THEN [status |-> "NotFittedError", features |-> <<>>, pipeline |-> p]
    ELSE IF MissingColumns(p, X) # {}
    THEN [status |-> "ValueError", features |-> <<>>, pipeline |-> p]
    ELSE [status |-> "ok", features |-> Transform(p, X, rows),
          pipeline |-> Fit(p, X, rows)]

\* a transform that skips the columns the data lacks
ApplyPipelineDropMissing(p, X, rows) ==
    IF ~p.fitted THEN [status |-> "NotFittedError", features |-> <<>>, pipeline |-> p]
    ELSE LET present == [p EXCEPT
                           !.num_kept = SelectSeq(@, LAMBDA c : c \in Range(X.cols)),
                           !.cat_kept = SelectSeq(@, LAMBDA c : c \in Range(X.cols))]
         IN  [status |-> "ok", features |-> Transform(present, X, rows), pipeline |-> p]

\* line 147: pipeline.transform(X) checks that the columns it selects by
\* name are there, reads the learned parameters and leaves them as they are
ApplyPipeline(p, X, rows) ==
    IF ~p.fitted THEN [status |-> "NotFittedError", features |-> <<>>, pipeline |-> p]
    ELSE IF MissingColumns(p, X) # {}
    THEN [status |-> "ValueError", features |-> <<>>, pipeline |-> p]
    ELSE [status |-> "ok", features |-> Transform(p, X, rows), pipeline |-> p]

\* lines 126-130
duplicate_targets(df, target_column) ==
    {c \in Range(_TARGET_CANDIDATES) : c \in Range(df.cols) /\ c # target_column}

\* a leakage drop that drops nothing
LeakageKept(df, target_column) == df

\* line 137
LeakageDropped(df, target_column) == Drop(df, duplicate_targets(df, target_column))

\* a preprocess_dataframe that drops the leakage columns and the target from
\* the caller's frame itself
caller_frame_dropped_in_place(df, target_column) ==
    LET target == _resolve_target_column(df, target_column)
    IN  IF target = NoHint THEN df
        ELSE Drop(LeakageDropped(df, target), {target})

\* the caller's frame once preprocess_dataframe is over, returned or raised:
\* lines 137-139 build new frames (drop without inplace, copy) and bind them
\* to local names, and neither fit_transform nor transform writes to its input
caller_frame_after(df, target_column) == df

\* an exception leaves the caller with no return value
Failure(status, message) ==
    [status |-> status, target |-> NoHint, x_cols |-> <<>>, features |-> <<>>,
     y |-> <<>>, pipeline |-> NoPipeline, message |-> message]

\* lines 126-156, once the target has resolved
preprocess_resolved(df, target, pipeline) ==
    LET df_model == LeakageDropped(df, target)
        y        == df_model.val[target]
        X        == Drop(df_model, {target})
        rows     == Len(y)
        out      == IF pipeline = NoPipeline
                    THEN FitTransform(
                           build_preprocessing_pipeline(df_model, target, NoList, NoList),
                           X, rows)
                    ELSE ApplyPipeline(pipeline, X, rows)
    IN  IF out.status # "ok" THEN Failure(out.status, NoMessage)
        ELSE [status   |-> "ok",
              target   |-> target,
              x_cols   |-> X.cols,
              features |-> out.features,
              y        |-> NormalizeTarget(df.kind[target], y),
              pipeline |-> out.pipeline,
              message  |-> NoMessage]

\* an orchestrator that skips target resolution when it is given a pipeline
\* and the dataset has no label
preprocess_unlabelled(df, target_column, pipeline) ==
    LET target == _resolve_target_column(df, target_column)
    IN  IF target # NoHint THEN preprocess_resolved(df, target, pipeline)
        ELSE IF pipeline = NoPipeline THEN Failure("KeyError", KeyErrorMessage(df))
        ELSE LET out == ApplyPipeline(pipeline, df, NumRows(df))
             IN  IF out.status # "ok" THEN Failure(out.status, NoMessage)
                 ELSE [status |-> "ok", target |-> NoHint, x_cols |-> df.cols,
                       features |-> out.features, y |-> <<>>,
                       pipeline |-> out.pipeline, message |-> NoMessage]

\* the outcome of preprocess_dataframe(df, target_column, pipeline), where
\* pipeline is NoPipeline for the default None: line 125 raises the KeyError
\* before anything else is done
preprocess_dataframe(df, target_column, pipeline) ==
    LET target == _resolve_target_column(df, target_column)
    IN  IF target = NoHint THEN Failure("KeyError", KeyErrorMessage(df))
        ELSE preprocess_resolved(df, target, pipeline)

----------------------------------------------------------------------------
(* Pipeline Persistence: preprocessing.py:159-174, helpers.py:39-44.       *)

Paths == {"models/preprocessing_pipeline.pkl"}

Parent(path) == "models"

NoFile == <<"<absent>">>

PipelineFields ==
    <<"num", "cat", "fitted", "n", "num_kept", "med2", "sum2", "var",
      "cat_kept", "mode", "categories">>

\* a dump of the pipeline as it was built, without what fit learned
DumpUnfitted(p) ==
    LET q == Unfitted(p.num, p.cat)
    IN  [i \in DOMAIN PipelineFields |-> <<PipelineFields[i], q[PipelineFields[i]]>>]

\* joblib.dump: the object's attributes written out one after the other
Dump(p) == [i \in DOMAIN PipelineFields |-> <<PipelineFields[i], p[PipelineFields[i]]>>]

\* a place of a file that no write has filled
Hole == <<"<hole>", 0>>

\* the file after chunk is written at offset pos by a writer that keeps its
\* own offset: what lies between the end of the file and pos is a hole
WriteAt(blob, pos, chunk) ==
    LET last == IF Len(blob) > pos + Len(chunk) THEN Len(blob) ELSE pos + Len(chunk)
    IN  [i \in 1..last |->
            IF i > pos /\ i <= pos + Len(chunk) THEN chunk[i - pos]
            ELSE IF i <= Len(blob) THEN blob[i] ELSE Hole]

\* the file holds every attribute of a pipeline, each in its place
WellFormed(blob) == [i \in DOMAIN blob |-> blob[i][1]] = PipelineFields

\* joblib.load: the object rebuilt from the attributes read back
Undump(blob) ==
    [f \in {blob[i][1] : i \in DOMAIN blob} |->
        blob[CHOOSE i \in DOMAIN blob : blob[i][1] = f][2]]

----------------------------------------------------------------------------
(* The state machine: the training driver fits and saves, the serving      *)
(* driver loads and applies.                                               *)

Holders == {"trained", "loaded"}

\* the training runs that may be under way at the same time
Runs == {"run1", "run2"}

IdleRun == [pc |-> "idle", pipeline |-> NoPipeline, path |-> "none", pos |-> 0]

NoFrame == [cols |-> <<>>, kind |-> NoParams, val |-> NoParams]

NoCall ==
    [op |-> "none", df |-> NoFrame, hint |-> NoHint, pipe_in |-> "none",
     path |-> "none", status |-> "none", target |-> NoHint, x_cols |-> <<>>,
     features |-> <<>>, y |-> <<>>, pipe_out |-> "none", message |-> NoMessage,
     numerical_features |-> NoList, categorical_features |-> NoList,
     df_after |-> NoFrame]

Init ==
    /\ pipelines = [h \in Holders |-> NoPipeline]
    /\ files = [f \in Paths |-> NoFile]
    /\ dirs = {}
    /\ call = NoCall
    /\ saved = [f \in Paths |-> NoPipeline]
    /\ runs = [r \in Runs |-> IdleRun]

Record(op, df, hint, pipe_in, pipe_out, r) ==
    [op |-> op, df |-> df, hint |-> hint, pipe_in |-> pipe_in, path |-> "none",
     status |-> r.status, target |-> r.target, x_cols |-> r.x_cols,
     features |-> r.features, y |-> r.y,
     pipe_out |-> IF r.status = "ok" THEN pipe_out ELSE "none",
     message |-> r.message,
     numerical_features |-> NoList, categorical_features |-> NoList,
     df_after |-> caller_frame_after(df, hint)]

\* the training driver: preprocess_dataframe(df, hint) with no pipeline
FitCall(df, hint) ==
    LET r == preprocess_dataframe(df, hint, NoPipeline)
    IN  /\ call' = Record("fit", df, hint, "none", "trained", r)
        /\ pipelines' = IF r.status = "ok"
                        THEN [pipelines EXCEPT !["trained"] = r.pipeline]
                        ELSE pipelines
        /\ UNCHANGED <<files, dirs, saved, runs>>

\* a driver applying the pipeline it holds: preprocess_dataframe(df, hint, pipeline)
ApplyCall(df, hint, h) ==
    /\ pipelines[h] # NoPipeline
    /\ LET r == preprocess_dataframe(df, hint, pipelines[h])
       IN  /\ call' = Record("apply", df, hint, h, h, r)
           /\ pipelines' = IF r.status = "ok"
                           THEN [pipelines EXCEPT ![h] = r.pipeline]
                           ELSE pipelines
    /\ UNCHANGED <<files, dirs, saved, runs>>

\* save_pipeline(pipeline, output_path)
SaveCall(h, path) ==
    /\ pipelines[h] # NoPipeline
    /\ dirs' = dirs \cup {Parent(path)}
    /\ files' = [files EXCEPT ![path] = Dump(pipelines[h])]
    /\ saved' = [saved EXCEPT ![path] = pipelines[h]]
    /\ call' = [NoCall EXCEPT !.op = "save", !.pipe_in = h, !.path = path,
                              !.status = "ok"]
    /\ UNCHANGED <<pipelines, runs>>

\* a load that makes sure of the file's directory before it looks for the file
LoadCallEnsureDir(path) ==
    /\ IF files[path] = NoFile
       THEN /\ call' = [NoCall EXCEPT !.op = "load", !.path = path,
                                      !.status = "FileNotFoundError"]
            /\ UNCHANGED pipelines
       ELSE /\ call' = [NoCall EXCEPT !.op = "load", !.path = path,
                                      !.status = "ok", !.pipe_out = "loaded"]
            /\ pipelines' = [pipelines EXCEPT !["loaded"] = Undump(files[path])]
    /\ dirs' = dirs \cup {Parent(path)}
    /\ UNCHANGED <<files, saved, runs>>

\* load_pipeline(pipeline_path): the FileNotFoundError of line 172, or what
\* joblib.load makes of the file (an unpickling error when the file is not
\* a whole dump)
LoadCall(path) ==
    /\ IF files[path] = NoFile
       THEN /\ call' = [NoCall EXCEPT !.op = "load", !.path = path,
                                      !.status = "FileNotFoundError"]
            /\ UNCHANGED pipelines
       ELSE IF ~WellFormed(files[path])
       THEN /\ call' = [NoCall EXCEPT !.op = "load", !.path = path,
                                      !.status = "UnpicklingError"]
            /\ UNCHANGED pipelines
       ELSE /\ call' = [NoCall EXCEPT !.op = "load", !.path = path,
                                      !.status = "ok", !.pipe_out = "loaded"]
            /\ pipelines' = [pipelines EXCEPT !["loaded"] = Undump(files[path])]
    /\ UNCHANGED <<files, dirs, saved, runs>>

Next ==
    \/ \E df \in Datasets, hint \in Hints : FitCall(df, hint)
    \/ \E df \in Datasets, hint \in Hints, h \in Holders : ApplyCall(df, hint, h)
    \/ \E h \in Holders, path \in Paths : SaveCall(h, path)
    \/ \E path \in Paths : LoadCall(path)

Spec == Init /\ [][Next]_vars

----------------------------------------------------------------------------
(* The Target Resolver on its own: _resolve_target_column is a pure        *)
(* function of the column names and the preferred name, checked over every *)
(* combination of candidate columns.                                       *)

Reverse(s) == [i \in DOMAIN s |-> s[Len(s) + 1 - i]]

LabelNames == Range(_TARGET_CANDIDATES) \cup {"Exited"}

\* the label-like columns come after the features, the candidates in the
\* reverse of their declared order
ResolveFrames ==
    { MakeFrame(<<"tenure">> \o SelectSeq(<<"Exited">> \o Reverse(_TARGET_CANDIDATES),
                                          LAMBDA c : c \in present),
                FirstWindow) : present \in SUBSET LabelNames }

ResolveHints == {NoHint, "Churn", "Exited", "Churn Value", "churn_label"}

\* _resolve_target_column(df, preferred): the name returned, or the KeyError
ResolveCall(df, preferred) ==
    LET target == _resolve_target_column(df, preferred)
    IN  /\ call' = [NoCall EXCEPT
                      !.op = "resolve", !.df = df, !.hint = preferred,
                      !.status = IF target = NoHint THEN "KeyError" ELSE "ok",
                      !.target = target,
                      !.message = IF target = NoHint THEN KeyErrorMessage(df)
                                  ELSE NoMessage]
        /\ UNCHANGED <<pipelines, files, dirs, saved, runs>>

NextResolve == \E df \in ResolveFrames, preferred \in ResolveHints : ResolveCall(df, preferred)

SpecResolve == Init /\ [][NextResolve]_vars

----------------------------------------------------------------------------
(* The encoder and the layout of the feature matrix: pipelines fit on and   *)
(* applied to datasets with two categorical columns, whose windows differ   *)
(* in the values they hold (a value of one window may be new to a pipeline  *)
(* fit on another; TotalCharges has no value at all in some windows).       *)

EncodeFrames ==
    { MakeFrame(columns, w) :
        columns \in { <<"tenure", "Partner", "Contract", "Churn">>,
                      <<"Contract", "TotalCharges", "tenure", "Partner", "Churn">> },
        w \in {FirstWindow, SecondWindow, MiddleWindow, ShortWindow} }

\* the default target_column, and a falsy one
EncodeHints == {"Churn", NoHint}

NextEncode ==
    \/ \E df \in EncodeFrames, hint \in EncodeHints : FitCall(df, hint)
    \/ \E df \in EncodeFrames, hint \in EncodeHints : ApplyCall(df, hint, "trained")

SpecEncode == Init /\ [][NextEncode]_vars

----------------------------------------------------------------------------
(* The Pipeline Builder on its own: build_preprocessing_pipeline called on  *)
(* the frames the orchestrator hands it (line 142), with and without        *)
(* pre-supplied column lists.                                               *)

\* the arguments of line 142, df_model and the resolved target, for every
\* dataset and hint; a dataset without a label is passed as it is
BuildInputs ==
    { LET target == _resolve_target_column(q[1], q[2])
      IN  IF target = NoHint THEN [df |-> q[1], target_column |-> q[2]]
          ELSE [df |-> LeakageDropped(q[1], target), target_column |-> target] :
        q \in Datasets \X Hints }

\* the numerical_features / categorical_features arguments: None, an empty
\* list, and the lists of one or both of the dataset's first two columns
\* other than the target
FeatureLists(df, target_column) ==
    LET others == SelectSeq(df.cols, LAMBDA c : c # target_column)
        named  == SubSeq(others, 1, Min(2, Len(others)))
    IN  {NoList, <<>>}
          \cup {SelectSeq(named, LAMBDA c : c \in chosen) :
                   chosen \in (SUBSET Range(named)) \ {{}}}

\* build_preprocessing_pipeline(df, target_column, numerical_features,
\* categorical_features): the transformer returned, or the KeyError of line 75
BuildCall(df, target_column, numerical_features, categorical_features) ==
    LET target == _resolve_target_column(df, target_column)
        made   == [NoCall EXCEPT
                     !.op = "build", !.df = df, !.hint = target_column,
                     !.numerical_features = numerical_features,
                     !.categorical_features = categorical_features,
                     !.df_after = df]
    IN  /\ IF target = NoHint
           THEN /\ call' = [made EXCEPT !.status = "KeyError",
                                        !.message = KeyErrorMessage(df)]
                /\ UNCHANGED pipelines
           ELSE /\ call' = [made EXCEPT !.status = "ok", !.target = target,
                                        !.pipe_out = "trained"]
                /\ pipelines' = [pipelines EXCEPT !["trained"] =
                                   build_preprocessing_pipeline(
                                     df, target_column,
                                     numerical_features, categorical_features)]
        /\ UNCHANGED <<files, dirs, saved, runs>>

NextBuild ==
    \E input \in BuildInputs :
        \E numerical_features, categorical_features
              \in FeatureLists(input.df, input.target_column) :
            BuildCall(input.df, input.target_column,
                      numerical_features, categorical_features)

SpecBuild == Init /\ [][NextBuild]_vars

----------------------------------------------------------------------------
(* Training runs under way at the same time: each run of the DAG task       *)
(* preprocess_dataset (data_pipeline.py:46-66) fits a pipeline and saves it  *)
(* to the pipeline path.  save_pipeline is not one step here: it makes sure  *)
(* of the directory, and joblib.dump opens the file for writing, which       *)
(* empties it, writes the dump in several write calls at the writer's own    *)
(* offset, and closes it.  Nothing in the code orders the steps of two runs. *)

\* the datasets the runs read: two exports with a Churn column, one without
RaceFrames ==
    {d \in Datasets :
        d.cols \in {<<"tenure", "Contract", "Churn">>, <<"tenure", "Contract">>}}

\* data_pipeline.py:53: preprocess_dataframe(df); an exception ends the run
RunFit(r, df) ==
    /\ runs[r].pc = "idle"
    /\ LET res == preprocess_dataframe(df, "Churn", NoPipeline)
       IN  /\ call' = Record("fit", df, "Churn", "none", r, res)
           /\ runs' = [runs EXCEPT ![r] =
                         IF res.status = "ok"
                         THEN [@ EXCEPT !.pc = "fitted", !.pipeline = res.pipeline]
                         ELSE [@ EXCEPT !.pc = "failed"]]
    /\ UNCHANGED <<pipelines, files, dirs, saved>>

\* preprocessing.py:162: ensure_dir(Path(output_path).parent)
RunEnsureDir(r, path) ==
    /\ runs[r].pc = "fitted"
    /\ dirs' = dirs \cup {Parent(path)}
    /\ runs' = [runs EXCEPT ![r].pc = "ensured", ![r].path = path]
    /\ UNCHANGED <<pipelines, files, call, saved>>

\* preprocessing.py:163: joblib.dump opens the file with mode "wb"
RunOpen(r) ==
    /\ runs[r].pc = "ensured"
    /\ files' = [files EXCEPT ![runs[r].path] = <<>>]
    /\ runs' = [runs EXCEPT ![r].pc = "writing", ![r].pos = 0]
    /\ UNCHANGED <<pipelines, dirs, call, saved>>

\* preprocessing.py:163: one write call of joblib.dump
RunWrite(r) ==
    LET blob  == Dump(runs[r].pipeline)
        pos   == runs[r].pos
        chunk == SubSeq(blob, pos + 1, Min(pos + WriteChunk, Len(blob)))
    IN  /\ runs[r].pc = "writing"
        /\ pos < Len(blob)
        /\ files' = [files EXCEPT ![runs[r].path] = WriteAt(@, pos, chunk)]
        /\ runs' = [runs EXCEPT ![r].pos = pos + Len(chunk)]
        /\ UNCHANGED <<pipelines, dirs, call, saved>>

\* preprocessing.py:163-164: the file is closed and save_pipeline returns
RunReturn(r) ==
    /\ runs[r].pc = "writing"
    /\ runs[r].pos = Len(Dump(runs[r].pipeline))
    /\ runs' = [runs EXCEPT ![r].pc = "done"]
    /\ saved' = [saved EXCEPT ![runs[r].path] = runs[r].pipeline]
    /\ call' = [NoCall EXCEPT !.op = "save", !.pipe_in = r,
                              !.path = runs[r].path, !.status = "ok"]
    /\ UNCHANGED <<pipelines, files, dirs>>

NextRace ==
    \/ \E r \in Runs, df \in RaceFrames : RunFit(r, df)
    \/ \E r \in Runs, path \in Paths : RunEnsureDir(r, path)
    \/ \E r \in Runs : RunOpen(r)
    \/ \E r \in Runs : RunWrite(r)
    \/ \E r \in Runs : RunReturn(r)
    \/ \E path \in Paths : LoadCall(path)

SpecRace == Init /\ [][NextRace]_vars


----------------------------------------------------------------------------
(* The claims.                                                             *)

\* the columns a pipeline selects by name
PipelineColumns(p) == Range(p.num) \cup Range(p.cat)

\* no name of the search order (preferred name, then candidates) is a column
LabelAbsent(df, hint) ==
    \A c \in ({hint} \ {NoHint}) \cup Range(_TARGET_CANDIDATES) : c \notin Range(df.cols)

\* the candidate columns of the last call's dataset other than its target
CallLeakage ==
    {c \in Range(_TARGET_CANDIDATES) : c \in Range(call.df.cols) /\ c # call.target}

CallSucceeded == call.op \in {"fit", "apply"} /\ call.status = "ok"

\* C1: after every successful fit or apply call, no candidate column of the
\* dataset other than the resolved target is among the columns handed to the
\* pipeline or among the columns the pipeline builds the features from.
C1_LeakageExcluded ==
    CallSucceeded =>
        CallLeakage \cap (Range(call.x_cols) \cup PipelineColumns(pipelines[call.pipe_out])) = {}

\* C1 witness: an apply call succeeded on a dataset that has leakage columns.
C1_Witness == call.op = "apply" /\ call.status = "ok" /\ CallLeakage # {}

\* C2: the resolver returns the first name of <<preferred (if supplied)>> \o
\* candidates that is a column; a present preferred name wins, and a fixed
\* candidate is returned only if every name before it is absent.
C2_FirstInSearchOrder ==
    (call.op = "resolve" /\ call.status = "ok") =>
        LET order == (IF call.hint # NoHint THEN <<call.hint>> ELSE <<>>)
                        \o _TARGET_CANDIDATES
            cols  == Range(call.df.cols)
        IN  /\ \E i \in DOMAIN order :
                  /\ order[i] = call.target
                  /\ order[i] \in cols
                  /\ \A j \in 1..(i - 1) : order[j] \notin cols
            /\ (call.hint # NoHint /\ call.hint \in cols) => call.target = call.hint

\* C2 witness: a present preferred name that is late in the candidate list
\* was returned although the first fixed candidate is a column too.
C2_Witness ==
    /\ call.op = "resolve" /\ call.status = "ok"
    /\ call.hint = "Churn Value" /\ call.target = "Churn Value"
    /\ "Churn" \in Range(call.df.cols)

\* C3 (as claimed): when no name of the search order is a column, the call
\* fails with the KeyError, returns nothing, and the error names every
\* candidate tried and previews at most the first 20 columns.
C3_ErrorNamesEveryCandidate ==
    (call.op \in {"fit", "apply"} /\ LabelAbsent(call.df, call.hint)) =>
        /\ call.status = "KeyError"
        /\ call.features = <<>> /\ call.y = <<>> /\ call.pipe_out = "none"
        /\ Range(search_order(call.hint)) \subseteq Range(call.message.candidates)
        /\ Len(call.message.available) <= 20
        /\ call.message.available
             = SubSeq(call.df.cols, 1, Len(call.message.available))

\* C4: a call with an existing pipeline changes no pipeline (neither its
\* column lists nor any learned parameter) and returns the one passed in.
C4_ApplyOnlyTransforms ==
    [][call'.op = "apply" =>
          /\ pipelines' = pipelines
          /\ call'.status = "ok" => call'.pipe_out = call'.pipe_in]_vars

\* C4 witness: a pipeline was applied to a dataset of another size than the
\* one it was fit on.
C4_Witness ==
    /\ call.op = "apply" /\ call.status = "ok"
    /\ pipelines[call.pipe_out].n # NumRows(call.df)

\* the serving case of C5: the loaded pipeline applied to a dataset with all
\* of the pipeline's columns and no label column
ServingWithoutLabel ==
    /\ call.op = "apply" /\ call.pipe_in = "loaded"
    /\ LabelAbsent(call.df, call.hint)
    /\ PipelineColumns(pipelines["loaded"]) \subseteq Range(call.df.cols)

\* C5 (as claimed): serving a dataset without a label column returns the
\* feature matrix.
C5_ServingReturnsFeatures ==
    ServingWithoutLabel =>
        call.status = "ok" /\ Len(call.features) = NumRows(call.df)

\* C5 (amended): serving a dataset without a label column fails with the
\* KeyError of target resolution and returns no feature matrix.
C5_ServingNeedsLabel ==
    ServingWithoutLabel =>
        call.status = "KeyError" /\ call.features = <<>> /\ call.pipe_out = "none"

\* C5 witness: such a serving call was made.
C5_Witness == ServingWithoutLabel /\ call.status = "KeyError"

\* the trimmed, lowercased text is "yes", said without strip and lower
IsYesText(v) ==
    /\ v # NA
    /\ \E i \in 1..Len(v) :
          /\ i + 2 <= Len(v)
          /\ v[i] \in {"y", "Y"} /\ v[i + 1] \in {"e", "E"} /\ v[i + 2] \in {"s", "S"}
          /\ \A k \in 1..Len(v) : (k < i \/ k > i + 2) => v[k] \in {" ", "\t"}

\* C6: each value of a textual target maps, on its own, to 1 when it is
\* "yes" up to case and surrounding whitespace, and to 0 otherwise (a "no",
\* an unrecognised text, a missing value).
C6_TextCanonicalized ==
    (CallSucceeded /\ call.df.kind[call.target] = "obj") =>
        /\ Len(call.y) = NumRows(call.df)
        /\ \A i \in DOMAIN call.y :
              call.y[i] = IF IsYesText(call.df.val[call.target][i]) THEN 1 ELSE 0

\* C6 witness: a padded "yes" became 1 and a missing value became 0.
C6_Witness ==
    /\ CallSucceeded /\ call.df.kind[call.target] = "obj"
    /\ \E i, j \in DOMAIN call.y :
          /\ call.df.val[call.target][i] = <<" ", "y", "e", "s", " ">> /\ call.y[i] = 1
          /\ call.df.val[call.target][j] = NA /\ call.y[j] = 0

\* C7 (as claimed): every element of every returned target vector is 0 or 1.
C7_TargetAlwaysBinary ==
    CallSucceeded => \A i \in DOMAIN call.y : call.y[i] \in {0, 1}

\* C7 (amended): a textual target comes back as 0s and 1s; a numeric target
\* comes back unchanged.
C7_TextBinaryNumericUnchanged ==
    CallSucceeded =>
        IF call.df.kind[call.target] = "obj"
        THEN \A i \in DOMAIN call.y : call.y[i] \in {0, 1}
        ELSE call.y = call.df.val[call.target]

\* C7 witness: a numeric target with a value outside {0, 1} was returned.
C7_Witness ==
    /\ CallSucceeded /\ call.df.kind[call.target] = "num"
    /\ \E i \in DOMAIN call.y : call.y[i] \notin {0, 1}

AppliedToLackingDataset ==
    /\ call.op = "apply"
    /\ PipelineColumns(pipelines[call.pipe_in]) \ Range(call.df.cols) # {}

\* C10 (as claimed): such a call fails with the schema-mismatch error.
C10_MismatchError ==
    AppliedToLackingDataset => call.status = "ValueError" /\ call.features = <<>>

\* C10 (amended): such a call fails and returns nothing, with the mismatch
\* error (ValueError) when the target resolves and with the KeyError of
\* target resolution, raised first, when it does not.
C10_FailsMismatchOrSchema ==
    AppliedToLackingDataset =>
        /\ call.features = <<>> /\ call.pipe_out = "none"
        /\ call.status = IF LabelAbsent(call.df, call.hint) THEN "KeyError"
                         ELSE "ValueError"

\* C10 witness: the mismatch error was raised for a lacking column.
C10_Witness == AppliedToLackingDataset /\ call.status = "ValueError"

\* the cells <<column, row>> of a dataset holding a categorical value the
\* pipeline did not observe in that column at fit time
UnseenCells(p, df) ==
    {cell \in Range(p.cat_kept) \X (1..NumRows(df)) :
        /\ df.val[cell[1]][cell[2]] # NA
        /\ df.val[cell[1]][cell[2]] \notin Range(p.categories[cell[1]])}

\* the number of feature columns before the indicator block of column c
BlockOffset(p, c) ==
    LET idx == CHOOSE k \in DOMAIN p.cat_kept : p.cat_kept[k] = c
    IN  Len(p.num_kept)
          + Sum([k \in 1..(idx - 1) |-> Len(p.categories[p.cat_kept[k]])])

\* the dataset with the value of column c in row i replaced by w
WithValue(df, c, i, w) == [df EXCEPT !.val[c][i] = w]

\* the case of C11: a transform-only call on a dataset that has a label and
\* every column of the pipeline, with a categorical value unseen at fit
AppliedWithUnseen ==
    /\ call.op = "apply"
    /\ ~LabelAbsent(call.df, call.hint)
    /\ PipelineColumns(pipelines[call.pipe_in]) \subseteq Range(call.df.cols)
    /\ UnseenCells(pipelines[call.pipe_in], call.df) # {}

\* C11: a transform-only call with a categorical value unseen at fit raises
\* no error; the value's indicator block is all zero, and every other cell
\* of the feature matrix (the other blocks of the row, the other rows) is
\* what it is when the value is replaced by a seen or a missing one.
C11_UnseenCategoryAllZero ==
    AppliedWithUnseen =>
        LET p == pipelines[call.pipe_in]
        IN  /\ call.status = "ok"
            /\ \A cell \in UnseenCells(p, call.df) :
                  LET c     == cell[1]
                      i     == cell[2]
                      from  == BlockOffset(p, c)
                      block == (from + 1)..(from + Len(p.categories[c]))
                  IN  /\ \A k \in block : call.features[i][k] = <<0, 1>>
                      /\ \A w \in Range(p.categories[c]) \cup {NA} :
                            LET other == preprocess_dataframe(
                                           WithValue(call.df, c, i, w), call.hint, p).features
                            IN  /\ Len(other) = Len(call.features)
                                /\ \A j \in DOMAIN other :
                                      /\ Len(other[j]) = Len(call.features[j])
                                      /\ \A k \in DOMAIN other[j] :
                                            (j # i \/ k \notin block)
                                                => other[j][k] = call.features[j][k]

\* C11 witness: a dataset was transformed in which one row has an unseen
\* value in one categorical column and another row has one in another.
C11_Witness ==
    /\ AppliedWithUnseen /\ call.status = "ok"
    /\ \E a, b \in UnseenCells(pipelines[call.pipe_in], call.df) :
          a[1] # b[1] /\ a[2] # b[2]

Numeric == <<"<numeric>">>

\* the feature columns read off a fitted pipeline alone: one per numeric
\* column with a learned median, in the numeric list's order, then one per
\* learned category of each categorical column, in the categorical list's
\* order
ColumnLayout(p) ==
    LET nums == SelectSeq(p.num, LAMBDA c : c \in DOMAIN p.med2)
        cats == SelectSeq(p.cat, LAMBDA c : c \in DOMAIN p.categories)
    IN  [k \in DOMAIN nums |-> [col |-> nums[k], category |-> Numeric]]
        \o Concat([k \in DOMAIN cats |->
                     [j \in DOMAIN p.categories[cats[k]] |->
                        [col |-> cats[k], category |-> p.categories[cats[k]][j]]]])

\* what the feature column e holds for the input value x
ExpectedCell(p, e, x) ==
    IF e.category = Numeric THEN ScaledCell(p, e.col, x)
    ELSE <<IF (IF x = NA THEN p.mode[e.col] ELSE x) = e.category THEN 1 ELSE 0, 1>>

\* C12: the feature matrix of a successful fit or apply call has one row per
\* row of the dataset, and its columns are those of the pipeline's layout
\* (numeric outputs in the numeric list's order, then the indicator blocks
\* in the categorical list's order), in that order; every dataset with the
\* same columns gives, under the same pipeline, the same number of columns.
C12_LayoutFromPipeline ==
    CallSucceeded =>
        LET p      == pipelines[call.pipe_out]
            layout == ColumnLayout(p)
        IN  /\ Len(call.features) = NumRows(call.df)
            /\ \A i \in DOMAIN call.features :
                  /\ Len(call.features[i]) = Len(layout)
                  /\ \A k \in DOMAIN layout :
                        call.features[i][k]
                          = ExpectedCell(p, layout[k], call.df.val[layout[k].col][i])
            /\ \A d \in EncodeFrames :
                  d.cols = call.df.cols =>
                      LET other == preprocess_dataframe(d, call.hint, p)
                      IN  /\ other.status = "ok"
                          /\ Len(other.features) = NumRows(d)
                          /\ \A i \in DOMAIN other.features :
                                Len(other.features[i]) = Len(layout)

\* C12 witness: a pipeline with numeric and categorical outputs, one of whose
\* numeric columns had no value at fit, was applied to a dataset of another
\* size than the one it was fit on.
C12_Witness ==
    /\ call.op = "apply" /\ call.status = "ok"
    /\ LET p == pipelines[call.pipe_out]
       IN  /\ p.n # NumRows(call.df)
           /\ \E c \in Range(p.num) : c \notin DOMAIN p.med2
           /\ \E a, b \in Range(ColumnLayout(p)) :
                 a.category = Numeric /\ b.category # Numeric

\* C13: a load from a path to which no save has ever completed fails with
\* the FileNotFoundError and returns no pipeline: no driver's pipeline
\* changes, and neither the file nor its parent directory is created.
C13_LoadMissingFails ==
    [][(call'.op = "load" /\ saved[call'.path] = NoPipeline) =>
          /\ call'.status = "FileNotFoundError"
          /\ call'.pipe_out = "none"
          /\ pipelines' = pipelines
          /\ files' = files /\ files'[call'.path] = NoFile
          /\ dirs' = dirs]_vars

\* C13 witness: a load has failed while a fitted pipeline was held but not
\* saved, and the directory of the path is still not there.
C13_Witness ==
    /\ call.op = "load" /\ call.status = "FileNotFoundError"
    /\ saved[call.path] = NoPipeline
    /\ pipelines["trained"] # NoPipeline /\ pipelines["loaded"] = NoPipeline
    /\ files[call.path] = NoFile /\ Parent(call.path) \notin dirs

\* the columns of the last call's dataset that are neither the target nor a
\* leakage column, in dataset order
CallFeatureColumns ==
    SelectSeq(call.df.cols,
              LAMBDA c : c # call.target /\ c \notin Range(_TARGET_CANDIDATES))

\* C14 (as claimed): the column lists of a newly built pipeline are disjoint,
\* hold neither the target nor a leakage column, and together hold every
\* other column of the dataset exactly once, each list in dataset column
\* order, whether the lists were detected or pre-supplied.
C14_AssignmentIsPartition ==
    (call.op = "build" /\ call.status = "ok") =>
        LET p == pipelines[call.pipe_out]
        IN  /\ Range(p.num) \cap Range(p.cat) = {}
            /\ (Range(p.num) \cup Range(p.cat))
                  \cap ({call.target} \cup Range(_TARGET_CANDIDATES)) = {}
            /\ Range(p.num) \cup Range(p.cat) = Range(CallFeatureColumns)
            /\ Len(p.num) + Len(p.cat) = Len(CallFeatureColumns)
            /\ p.num = SelectSeq(CallFeatureColumns, LAMBDA c : c \in Range(p.num))
            /\ p.cat = SelectSeq(CallFeatureColumns, LAMBDA c : c \in Range(p.cat))

\* C15: a preprocess_dataframe call that fails (KeyError, or the ValueError
\* of a transform) returns nothing and changes nothing: the caller's frame,
\* every pipeline, every file and every directory are as before; and a fit
\* that returns, returns a fitted pipeline that transforms the data it was
\* fit on.
C15_FailureChangesNothing ==
    [][/\ (call'.op \in {"fit", "apply"} /\ call'.status # "ok") =>
             /\ call'.features = <<>> /\ call'.y = <<>> /\ call'.pipe_out = "none"
             /\ call'.df_after = call'.df
             /\ pipelines' = pipelines
             /\ files' = files /\ dirs' = dirs
       /\ (call'.op = "fit" /\ call'.status = "ok") =>
             /\ pipelines'[call'.pipe_out].fitted
             /\ LET again == preprocess_dataframe(call'.df, call'.hint,
                                                  pipelines'[call'.pipe_out])
                IN  again.status = "ok" /\ again.features = call'.features]_vars

\* C15 witness: a saved pipeline was applied to a dataset that has a target
\* and a leakage column and lacks one of the pipeline's columns, and the
\* call failed in the transform, after the drops of lines 137-139.
C15_Witness ==
    /\ call.op = "apply" /\ call.status = "ValueError"
    /\ duplicate_targets(call.df, _resolve_target_column(call.df, call.hint)) # {}
    /\ \E path \in Paths : saved[path] = pipelines[call.pipe_in]

\* both training runs have returned from save_pipeline
BothSavesCompleted == \A r \in Runs : runs[r].pc = "done"

\* C16 (as claimed): once two concurrent saves to one path have both
\* completed, the file is the complete dump of the pipeline of the save that
\* finished last, and a load that then runs returns that pipeline.
C16_LastWriterWins ==
    BothSavesCompleted =>
        \A path \in Paths :
            /\ files[path] = Dump(saved[path])
            /\ (call.op = "load" /\ call.path = path) =>
                  call.status = "ok" /\ pipelines["loaded"] = saved[path]

=============================================================================
